---- MODULE Spec2Model ----
(***************************************************************************)
(* StreamFlix backend: the subscription / billing flow of                  *)
(* routes/subscriptions.js (src/unnamed/part_006, lines 636-1119), the     *)
(* subscription jobs of utils/subscriptionCron.js (src/unnamed/part_002)   *)
(* and the upgrade-price calculation calculateUpgradeAmount; the playback  *)
(* check of routes/videos.js (part_006, lines 199-228); and the start-up   *)
(* of the server (src/server.js, src/unnamed/part_003).                    *)
(*                                                                         *)
(* Specifications.  Spec is the billing workflow from a new account on.    *)
(* SpecCalc, SpecCalcClock, SpecOrder, SpecJobs and SpecReactivate apply   *)
(* one part of it to documents drawn from bounded sets; SpecAccess adds    *)
(* playback; SpecRace interleaves two requests at their awaits; SpecServer *)
(* is the start-up.                                                        *)
(*                                                                         *)
(* Time.  A Date is an integer number of ticks; one day is TicksPerDay     *)
(* ticks (the code: 1000 * 60 * 60 * 24 ms).  `now` is the system clock    *)
(* that every `new Date()` of the code reads.                              *)
(*                                                                         *)
(* Money.  Amounts are counted in twelfths of a rupee, so that the code's  *)
(* currentPlan.price / 12 is exact: a price of n rupees is Rupees(n).      *)
(* (The code computes in IEEE doubles; rounding of the last bit is not     *)
(* modelled.)                                                              *)
(***************************************************************************)
EXTENDS Integers, Sequences, FiniteSets, TLC

VARIABLES
    now,      \* the system clock, in ticks
    env,      \* process.env: which gateway credentials are set
    plans,    \* the SubscriptionPlan collection: _id -> document
    users,    \* the User collection: _id -> [subscription, paymentHistory]
    resp,     \* the last request and the response it was answered with
    server,   \* server.js: the cached database connection and the start-up's progress
    crons,    \* utils/subscriptionCron.js: which of the two scheduled tasks are started
    flights   \* create-order / verify-payment requests that are between two awaits

vars == <<now, env, plans, users, resp, server, crons, flights>>

----------------------------------------------------------------------------
(* Program constants *)

GraceDays == 5
DaysPerMonth == 30
MonthsPerYear == 12
PaisePerRupee == 100

(* Bounds of the model *)

TicksPerDay == 2
MaxDays == 33
MaxHistory == 2

MaxTime == MaxDays * TicksPerDay

\* The clock is observed every five and a half days: on day 5 (inside the
\* grace window), day 11, ..., and half a day before a 28-day period ends.
TickSteps == {GraceDays * TicksPerDay + 1}

NULL == "null"

\* The null a document lookup answers with
NullDoc == [null |-> TRUE]

Rupees(n) == n * MonthsPerYear

Max(a, b) == IF a >= b THEN a ELSE b

Users == {"u1"}

\* The four plans the schema's `name` enum allows.
PlanIds == {"basicMonthly", "basicYearly", "advanceMonthly", "advanceYearly"}

Catalog ==
    [p \in PlanIds |->
        CASE p = "basicMonthly"   -> [type |-> "basic",   billing |-> "monthly", price |-> Rupees(199)]
          [] p = "basicYearly"    -> [type |-> "basic",   billing |-> "yearly",  price |-> Rupees(1200)]
          [] p = "advanceMonthly" -> [type |-> "advance", billing |-> "monthly", price |-> Rupees(499)]
          [] p = "advanceYearly"  -> [type |-> "advance", billing |-> "yearly",  price |-> Rupees(2400)]]

\* Date.setMonth(m + 1) and Date.setFullYear(y + 1) add a number of days that
\* depends on the calendar position of the date.
MonthLengths == 28 .. 31
YearLengths == {365, 366}

\* Mutant: every plan is paid for one month
PeriodLengthsMutant(plan) == MonthLengths

PeriodLengths(plan) == IF plan.billing = "monthly" THEN MonthLengths ELSE YearLengths

----------------------------------------------------------------------------
(* The process around the billing workflow *)

\* cron.schedule(..., { scheduled: false }): both tasks are created stopped
CronsStopped == [subscriptionRenewalCron |-> FALSE, expiredSubscriptionsCron |-> FALSE]

\* No request is between two awaits
NoFlights == <<>>

\* The state in which requests are served: the database is connected
Connected ==
    [entry |-> "server.js", cachedDb |-> TRUE, pc |-> "connected", retries |-> 3]

Serving ==
    /\ server = Connected
    /\ crons = CronsStopped
    /\ flights = NoFlights

----------------------------------------------------------------------------
(* The User schema's defaults for a newly registered account *)

NewSubscription ==
    [planId |-> NULL, status |-> "inactive", startDate |-> NULL,
     endDate |-> NULL, autoRenew |-> TRUE]

NewUser == [subscription |-> NewSubscription, paymentHistory |-> <<>>]

\* razorpay is non-null exactly when both credentials are set
razorpay == env.RAZORPAY_KEY_ID /\ env.RAZORPAY_KEY_SECRET

\* SubscriptionPlan.findById
findPlan(planId) == IF planId \in DOMAIN plans THEN plans[planId] ELSE NullDoc

\* User.findById(id).populate('subscription.planId')
populate(user) ==
    [user EXCEPT !.subscription.planId = findPlan(user.subscription.planId)]

----------------------------------------------------------------------------
(* calculateUpgradeAmount *)

\* Math.floor((now - subscriptionStart) / (1000 * 60 * 60 * 24))
daysSinceSubscription(user) ==
    (now - user.subscription.startDate) \div TicksPerDay

\* Mutant: the rejection needs both types to be wrong (&& for ||)
isUpgradePathMutant(currentPlan, newPlan) ==
    ~(currentPlan.type # "basic" /\ newPlan.type # "advance")

isUpgradePath(currentPlan, newPlan) ==
    ~(currentPlan.type # "basic" \/ newPlan.type # "advance")

\* Mutant: day 5 is outside the grace window (< for <=)
withinGraceMutant(days) == days < GraceDays

withinGrace(days) == days <= GraceDays

\* Mutant: the price difference is not clamped at 0
freeUpgradeAmountMutant(currentPlan, newPlan) ==
    newPlan.price - currentPlan.price

freeUpgradeAmount(currentPlan, newPlan) ==
    LET priceDifference == newPlan.price - currentPlan.price
    IN  Max(0, priceDifference)

\* Mutant: the current month is not charged
monthlyUpgradeAmountMutant(currentPlan, newPlan) ==
    newPlan.price

monthlyUpgradeAmount(currentPlan, newPlan) ==
    currentPlan.price + newPlan.price

\* Mutant: a started month counts as used (Math.ceil for Math.floor)
monthsUsedMutant(days) == (days + DaysPerMonth - 1) \div DaysPerMonth

monthsUsed(days) == days \div DaysPerMonth

\* Mutant: the months that remain are charged instead of the months used
usedAmountMutant(currentPlan, days) ==
    LET monthlyEquivalent == currentPlan.price \div MonthsPerYear
    IN  (MonthsPerYear - monthsUsed(days)) * monthlyEquivalent

usedAmount(currentPlan, days) ==
    LET monthlyEquivalent == currentPlan.price \div MonthsPerYear
    IN  monthsUsed(days) * monthlyEquivalent

\* Mutant: the refundable amount is clamped at 0
refundableAmountMutant(currentPlan, days) ==
    Max(0, currentPlan.price - usedAmount(currentPlan, days))

refundableAmount(currentPlan, days) ==
    currentPlan.price - usedAmount(currentPlan, days)

\* Mutant: the used part is credited instead of the unused part
yearlyUpgradeAmountMutant(currentPlan, newPlan, days) ==
    Max(0, newPlan.price - usedAmount(currentPlan, days))

yearlyUpgradeAmount(currentPlan, newPlan, days) ==
    Max(0, newPlan.price - refundableAmount(currentPlan, days))

InvalidPathMessage == "Invalid upgrade path. Can only upgrade from Basic to Advance."
UnableMessage == "Unable to calculate upgrade amount"

\* Mutant: every read of the current plan throws (the reference is read from a
\* field the query did not populate)
throwsTypeErrorMutant(currentPlan) == TRUE

\* currentPlan.type throws a TypeError when the populated reference is null
throwsTypeError(currentPlan) == currentPlan = NullDoc

\* Mutant: the catch block falls back to a free upgrade
catchErrorMutant(error) ==
    [amount |-> 0, reason |-> UnableMessage, daysSinceSubscription |-> 0]

\* catch (error) { ...; return { error: 'Unable to calculate upgrade amount' } }
catchError(error) == [error |-> UnableMessage]

\* `user` is the populated user document, `newPlan` a plan document.
calculateUpgradeAmount(user, newPlan) ==
    LET currentPlan == user.subscription.planId
        days == daysSinceSubscription(user)
    IN  IF throwsTypeError(currentPlan)
        THEN catchError("TypeError")
        ELSE IF ~isUpgradePath(currentPlan, newPlan)
        THEN [error |-> InvalidPathMessage]
        ELSE IF withinGrace(days)
        THEN [amount |-> freeUpgradeAmount(currentPlan, newPlan),
              reason |-> "Free upgrade within 5 days",
              daysSinceSubscription |-> days]
        ELSE IF currentPlan.billing = "monthly"
        THEN [amount |-> monthlyUpgradeAmount(currentPlan, newPlan),
              reason |-> "Upgrade after 5 days: current month charge + new plan",
              daysSinceSubscription |-> days]
        ELSE [amount |-> yearlyUpgradeAmount(currentPlan, newPlan, days),
              reason |-> <<"Yearly upgrade: used ", monthsUsed(days), " months, refund applied">>,
              daysSinceSubscription |-> days,
              usedAmount |-> usedAmount(currentPlan, days),
              refundableAmount |-> refundableAmount(currentPlan, days)]

----------------------------------------------------------------------------
(* Requests and responses *)

Response(route, req, code, body) ==
    [route |-> route, req |-> req, code |-> code, body |-> body]

NoResponse == Response("none", NULL, 0, NULL)

\* crypto.createHmac('sha256', secret).update(body).digest('hex')
hmac(body) == <<"hmac-sha256", body>>

\* The order and payment ids of the gateway
OrderIds == {"order_1"}
PaymentIds == {"pay_1"}

\* The signatures a client can send with a payment: the gateway's signature of
\* the payment, or anything else.
ClientSignatures(orderId, paymentId) ==
    {<<"forged">>, hmac(<<orderId, "|", paymentId>>)}

RequestPlanIds == PlanIds \cup {"unknownPlan"}

\* Mutant: every request flagged isUpgrade is priced as an upgrade
pricedAsUpgradeMutant(user, isUpgrade) == isUpgrade

\* if (isUpgrade && user.subscription.status === 'active')
pricedAsUpgrade(user, isUpgrade) ==
    isUpgrade /\ user.subscription.status = "active"

\* Mutant: the order is always for the plan's full price
orderAmountMutant(plan, upgrading, upgradeCalculation) ==
    plan.price * PaisePerRupee

\* finalAmount: plan.price * 100, replaced by upgradeCalculation.amount * 100
orderAmount(plan, upgrading, upgradeCalculation) ==
    IF upgrading
    THEN upgradeCalculation.amount * PaisePerRupee
    ELSE plan.price * PaisePerRupee

\* POST /api/subscriptions/create-order
\* razorpay.orders.create(options) creates the order at the gateway, which
\* answers with its id; the application keeps no record of it.
CreateOrder(u, planId, isUpgrade, orderId) ==
    LET req == [user |-> u, planId |-> planId, isUpgrade |-> isUpgrade]
        user == populate(users[u])
        plan == findPlan(planId)
        upgradeCalculation == calculateUpgradeAmount(user, plan)
        upgrading == pricedAsUpgrade(user, isUpgrade)
        finalAmount == orderAmount(plan, upgrading, upgradeCalculation)
    IN  /\ IF ~razorpay
           THEN resp' = Response("create-order", req, 503,
                                 [message |-> "Payment service is not configured. Please contact support."])
           ELSE IF plan = NullDoc
           THEN resp' = Response("create-order", req, 404, [message |-> "Plan not found"])
           ELSE IF upgrading /\ "error" \in DOMAIN upgradeCalculation
           THEN resp' = Response("create-order", req, 400, [message |-> upgradeCalculation.error])
           ELSE resp' = Response("create-order", req, 200,
                                 [success |-> TRUE, orderId |-> orderId,
                                  amount |-> finalAmount, isUpgrade |-> isUpgrade])
        /\ UNCHANGED <<now, env, plans, users, server, crons, flights>>

\* Mutant: any signature that is present is accepted
signatureMismatchMutant(expectedSignature, signature) == signature = <<>>

\* if (expectedSignature !== razorpay_signature)
signatureMismatch(expectedSignature, signature) == expectedSignature # signature

\* POST /api/subscriptions/verify-payment
VerifyPayment(u, orderId, paymentId, signature, planId) ==
    LET req == [user |-> u, razorpay_order_id |-> orderId, razorpay_payment_id |-> paymentId,
                razorpay_signature |-> signature, planId |-> planId]
        expectedSignature == hmac(<<orderId, "|", paymentId>>)
        plan == findPlan(planId)
    IN  /\ IF ~env.RAZORPAY_KEY_SECRET
           THEN \* createHmac throws on an undefined key; the handler answers 500
                /\ resp' = Response("verify-payment", req, 500, [message |-> "Payment verification failed"])
                /\ users' = users
           ELSE IF signatureMismatch(expectedSignature, signature)
           THEN /\ resp' = Response("verify-payment", req, 400, [message |-> "Invalid payment signature"])
                /\ users' = users
           ELSE IF plan = NullDoc
           THEN /\ resp' = Response("verify-payment", req, 404, [message |-> "Plan not found"])
                /\ users' = users
           ELSE /\ Len(users[u].paymentHistory) < MaxHistory
                /\ \E len \in PeriodLengths(plan) :
                     LET startDate == now
                         endDate == startDate + len * TicksPerDay
                         subscription == [planId |-> planId, status |-> "active",
                                          startDate |-> startDate, endDate |-> endDate,
                                          autoRenew |-> TRUE]
                     IN  /\ users' = [users EXCEPT
                               ![u].subscription = subscription,
                               ![u].paymentHistory =
                                   Append(@, [amount |-> plan.price, status |-> "success"])]
                         /\ resp' = Response("verify-payment", req, 200,
                                             [success |-> TRUE, subscription |-> subscription])
        /\ UNCHANGED <<now, env, plans, server, crons, flights>>

\* Mutant: the quote applies the upgrade to the subscription
UpgradeMutant(u, newPlanId) ==
    LET req == [user |-> u, newPlanId |-> newPlanId]
        user == populate(users[u])
        newPlan == findPlan(newPlanId)
        upgradeCalculation == calculateUpgradeAmount(user, newPlan)
    IN  /\ IF user.subscription.status # "active"
           THEN /\ resp' = Response("upgrade", req, 400, [message |-> "No active subscription to upgrade"])
                /\ users' = users
           ELSE IF newPlan = NullDoc
           THEN /\ resp' = Response("upgrade", req, 404, [message |-> "New plan not found"])
                /\ users' = users
           ELSE IF "error" \in DOMAIN upgradeCalculation
           THEN /\ resp' = Response("upgrade", req, 400, [message |-> upgradeCalculation.error])
                /\ users' = users
           ELSE /\ resp' = Response("upgrade", req, 200,
                                    [canUpgrade |-> TRUE,
                                     upgradeAmount |-> upgradeCalculation.amount,
                                     reason |-> upgradeCalculation.reason,
                                     daysSinceSubscription |-> upgradeCalculation.daysSinceSubscription])
                /\ users' = [users EXCEPT ![u].subscription.planId = newPlanId]
        /\ UNCHANGED <<now, env, plans, server, crons, flights>>

\* POST /api/subscriptions/upgrade
Upgrade(u, newPlanId) ==
    LET req == [user |-> u, newPlanId |-> newPlanId]
        user == populate(users[u])
        newPlan == findPlan(newPlanId)
        upgradeCalculation == calculateUpgradeAmount(user, newPlan)
    IN  /\ IF user.subscription.status # "active"
           THEN resp' = Response("upgrade", req, 400, [message |-> "No active subscription to upgrade"])
           ELSE IF newPlan = NullDoc
           THEN resp' = Response("upgrade", req, 404, [message |-> "New plan not found"])
           ELSE IF "error" \in DOMAIN upgradeCalculation
           THEN resp' = Response("upgrade", req, 400, [message |-> upgradeCalculation.error])
           ELSE resp' = Response("upgrade", req, 200,
                                 [canUpgrade |-> TRUE,
                                  upgradeAmount |-> upgradeCalculation.amount,
                                  reason |-> upgradeCalculation.reason,
                                  daysSinceSubscription |-> upgradeCalculation.daysSinceSubscription])
        /\ UNCHANGED <<now, env, plans, users, server, crons, flights>>

\* POST /api/subscriptions/cancel
Cancel(u) ==
    LET req == [user |-> u]
    IN  /\ IF users[u].subscription.status # "active"
           THEN /\ resp' = Response("cancel", req, 400, [message |-> "No active subscription to cancel"])
                /\ users' = users
           ELSE /\ Len(users[u].paymentHistory) < MaxHistory
                /\ users' = [users EXCEPT
                      ![u].subscription.status = "cancelled",
                      ![u].subscription.autoRenew = FALSE,
                      ![u].paymentHistory = Append(@, [amount |-> 0, status |-> "cancelled"])]
                /\ resp' = Response("cancel", req, 200,
                                    [success |-> TRUE, endDate |-> users[u].subscription.endDate])
        /\ UNCHANGED <<now, env, plans, server, crons, flights>>

\* Mutant: the last moment of the period is already too late (>= for >)
periodExpiredMutant(endDate) == now >= endDate

\* if (now > endDate), now = new Date()
periodExpired(endDate) == now > endDate

\* POST /api/subscriptions/reactivate
Reactivate(u) ==
    LET req == [user |-> u]
        endDate == users[u].subscription.endDate
    IN  /\ IF users[u].subscription.status # "cancelled"
           THEN /\ resp' = Response("reactivate", req, 400, [message |-> "No cancelled subscription to reactivate"])
                /\ users' = users
           ELSE IF periodExpired(endDate)
           THEN /\ resp' = Response("reactivate", req, 400,
                                    [message |-> "Subscription period has expired. Please subscribe to a new plan."])
                /\ users' = users
           ELSE /\ users' = [users EXCEPT
                      ![u].subscription.status = "active",
                      ![u].subscription.autoRenew = TRUE]
                /\ resp' = Response("reactivate", req, 200,
                                    [success |-> TRUE, subscription |-> users'[u].subscription])
        /\ UNCHANGED <<now, env, plans, server, crons, flights>>

----------------------------------------------------------------------------
(* The subscription jobs.  An action is one run of a task's callback, by the  *)
(* task's own timer once started, or by a scheduler outside the process that  *)
(* holds the exported task.                                                   *)

\* The query of the renewal job: active, auto-renewing, ending in the next 24 hours
expiringSubscription(user) ==
    LET tomorrow == now + TicksPerDay
    IN  /\ user.subscription.status = "active"
        /\ user.subscription.autoRenew = TRUE
        /\ user.subscription.endDate >= now
        /\ user.subscription.endDate < tomorrow

\* Mutant: the new period starts when the job runs
renewedSubscriptionMutant(subscription, len) ==
    LET startDate == now
        endDate == startDate + len * TicksPerDay
    IN  [subscription EXCEPT !.startDate = startDate, !.endDate = endDate]

\* The dates one iteration of the renewal loop writes
renewedSubscription(subscription, len) ==
    LET startDate == subscription.endDate
        endDate == startDate + len * TicksPerDay
    IN  [subscription EXCEPT !.startDate = startDate, !.endDate = endDate]

\* The loop renews a user of the query whose plan is found, and skips the others
renewable(user) ==
    expiringSubscription(user) /\ populate(user).subscription.planId # NullDoc

\* The period lengths the calendar allows for a user's renewal (one value for a
\* user the run leaves alone)
renewalLengths(user) ==
    IF renewable(user)
    THEN PeriodLengths(populate(user).subscription.planId)
    ELSE {365}

\* subscriptionRenewalCron: one run of the job
subscriptionRenewalCron ==
    /\ razorpay
    /\ \E len \in [DOMAIN users -> MonthLengths \cup YearLengths] :
         /\ \A u \in DOMAIN users : len[u] \in renewalLengths(users[u])
         /\ users' = [u \in DOMAIN users |->
                IF renewable(users[u])
                THEN [users[u] EXCEPT !.subscription = renewedSubscription(@, len[u])]
                ELSE users[u]]
    /\ UNCHANGED <<now, env, plans, resp, server, crons, flights>>

\* Mutant: a subscription ending at this very moment is expired too ($lte)
expiredSubscriptionMutant(user) ==
    /\ user.subscription.status = "active"
    /\ user.subscription.endDate <= now

\* The query of the expiry job: active and past the end date
expiredSubscription(user) ==
    /\ user.subscription.status = "active"
    /\ user.subscription.endDate < now

\* expiredSubscriptionsCron: one run of the job
expiredSubscriptionsCron ==
    /\ users' = [u \in DOMAIN users |->
           IF expiredSubscription(users[u])
           THEN [users[u] EXCEPT !.subscription.status = "expired"]
           ELSE users[u]]
    /\ UNCHANGED <<now, env, plans, resp, server, crons, flights>>

\* Time passes
Tick(d) ==
    /\ now + d <= MaxTime
    /\ now' = now + d
    /\ UNCHANGED <<env, plans, users, resp, server, crons, flights>>

----------------------------------------------------------------------------
(* The billing workflow *)

Init ==
    /\ now = 0
    /\ env \in [{"RAZORPAY_KEY_ID", "RAZORPAY_KEY_SECRET"} -> BOOLEAN]
    /\ plans = Catalog
    /\ users = [u \in Users |-> NewUser]
    /\ resp = NoResponse
    /\ Serving

Next ==
    \/ \E u \in Users, planId \in RequestPlanIds, isUpgrade \in BOOLEAN, orderId \in OrderIds :
          CreateOrder(u, planId, isUpgrade, orderId)
    \/ \E u \in Users, orderId \in OrderIds, paymentId \in PaymentIds, planId \in RequestPlanIds :
          \E signature \in ClientSignatures(orderId, paymentId) :
             VerifyPayment(u, orderId, paymentId, signature, planId)
    \/ \E u \in Users, newPlanId \in RequestPlanIds : Upgrade(u, newPlanId)
    \/ \E u \in Users : Cancel(u)
    \/ \E u \in Users : Reactivate(u)
    \/ subscriptionRenewalCron
    \/ expiredSubscriptionsCron
    \/ \E d \in TickSteps : Tick(d)

Spec == Init /\ [][Next]_vars

----------------------------------------------------------------------------
(* The calculation on its own: calculateUpgradeAmount applied to an active    *)
(* subscription of any age, with plans of any type, billing and price.        *)

\* Ages of the subscription, in days
CalcDays == {0, 2, 5, 6, 10, 29, 30, 59, 60, 95, 360, 389, 390, 400}

\* Plan prices, in rupees
CalcPrices == {0, 199, 499, 1200, 2400}

CalcPlans ==
    [type : {"basic", "advance"}, billing : {"monthly", "yearly"},
     price : {Rupees(n) : n \in CalcPrices}]

\* Start dates: d days and a part of a day before now, or (after a renewal,
\* which starts the new period at the old end date) less than a day after now
CalcStartDates ==
    {now - (d * TicksPerDay + off) : d \in CalcDays, off \in 0 .. TicksPerDay - 1}
        \cup {now + off : off \in 1 .. TicksPerDay - 1}

\* One call of calculateUpgradeAmount, as create-order and upgrade make it
Calculate(u, planId) ==
    /\ users[u].subscription.status = "active"
    /\ planId \in DOMAIN plans
    /\ resp' = Response("calculateUpgradeAmount", [user |-> u, planId |-> planId], 0,
                        calculateUpgradeAmount(populate(users[u]), findPlan(planId)))
    /\ UNCHANGED <<now, env, plans, users, server, crons, flights>>

InitCalc ==
    /\ now = 0
    /\ env = [v \in {"RAZORPAY_KEY_ID", "RAZORPAY_KEY_SECRET"} |-> TRUE]
    /\ \E current \in CalcPlans, target \in CalcPlans :
          plans = [p \in {"current", "target"} |-> IF p = "current" THEN current ELSE target]
    /\ \E startDate \in CalcStartDates :
          users = [u \in Users |->
                     [subscription |->
                          [planId |-> "current", status |-> "active",
                           startDate |-> startDate,
                           endDate |-> startDate + DaysPerMonth * TicksPerDay,
                           autoRenew |-> TRUE],
                      paymentHistory |-> <<[amount |-> plans["current"].price, status |-> "success"]>>]]
    /\ resp = NoResponse
    /\ Serving

NextCalc == \E u \in Users, planId \in {"current", "target"} : Calculate(u, planId)

SpecCalc == InitCalc /\ [][NextCalc]_vars

\* The calculation while time passes between two calls
InitCalcClock ==
    /\ InitCalc
    /\ plans["current"].price = Rupees(199)
    /\ plans["target"].price = Rupees(499)

NextCalcClock ==
    \/ \E u \in Users, planId \in {"current", "target"} : Calculate(u, planId)
    \/ \E d \in TickSteps : Tick(d)

SpecCalcClock == InitCalcClock /\ [][NextCalcClock]_vars

----------------------------------------------------------------------------
(* Properties of the calculation.  They read the last response (resp) and the  *)
(* documents the call was made on, and state the expected decision in terms    *)
(* of the elapsed time and the two prices, without the operators of the model. *)

\* The last step was a call of calculateUpgradeAmount; its result is Decision
Calculated == resp.route = "calculateUpgradeAmount"
Decision == resp.body
Accepted == "amount" \in DOMAIN Decision /\ "error" \notin DOMAIN Decision
Rejected == DOMAIN Decision = {"error"}

\* The documents of the call
CallSubscription == users[resp.req.user].subscription
CallCurrent == plans[CallSubscription.planId]
CallTarget == plans[resp.req.planId]
BasicToAdvance == CallCurrent.type = "basic" /\ CallTarget.type = "advance"

\* Elapsed time since the subscription start, in 24-hour days and 30-day months
Elapsed == now - CallSubscription.startDate
DaysAre(n) == n * TicksPerDay <= Elapsed /\ Elapsed < (n + 1) * TicksPerDay
DaysAtMost(n) == Elapsed < (n + 1) * TicksPerDay
DaysMoreThan(n) == Elapsed >= (n + 1) * TicksPerDay
MonthsAre(m) == 30 * m * TicksPerDay <= Elapsed /\ Elapsed < 30 * (m + 1) * TicksPerDay
MonthRange == 0 .. 14

Price(current, target) == CallCurrent.price = Rupees(current) /\ CallTarget.price = Rupees(target)

\* The call's user with another start date
CallUserStartedAt(startDate) ==
    [populate(users[resp.req.user]) EXCEPT !.subscription.startDate = startDate]

\* C1: every pair of plan types other than (basic, advance) is rejected with
\* the invalid-upgrade-path message and no amount, whatever the start date,
\* the billing cycle and the prices are.
C1_PathRestriction ==
    (Calculated /\ ~BasicToAdvance)
        => Decision = [error |-> "Invalid upgrade path. Can only upgrade from Basic to Advance."]

C1_Witness ==
    /\ Calculated
    /\ CallCurrent.type = "advance" /\ CallTarget.type = "basic"
    /\ DaysAre(10) /\ Price(2400, 199)
    /\ Rejected

\* C2: a basic -> advance upgrade at most 5 days after the start (day 5
\* included), monthly or yearly, is accepted for max(0, target - current) with
\* the rationale 'Free upgrade within 5 days'; 199 -> 499 after 2 days is 300.
C2_GraceWindow ==
    (Calculated /\ BasicToAdvance /\ DaysAtMost(5))
        => /\ Accepted
           /\ Decision.amount = (IF CallTarget.price > CallCurrent.price
                                  THEN CallTarget.price - CallCurrent.price ELSE 0)
           /\ Decision.amount >= 0
           /\ Decision.reason = "Free upgrade within 5 days"
           /\ (Price(199, 499) /\ DaysAre(2)) => Decision.amount = Rupees(300)

C2_Witness ==
    /\ Calculated /\ BasicToAdvance
    /\ DaysAre(5) /\ Elapsed = 6 * TicksPerDay - 1
    /\ CallCurrent.billing = "monthly"
    /\ Price(499, 199)
    /\ Accepted /\ Decision.amount = 0

\* C3: a basic -> advance upgrade of a monthly plan more than 5 days after the
\* start costs current + target exactly, the same for every number of days
\* greater than 5; 199 -> 499 after 10 days is 698.
C3_MonthlyAdditivity ==
    (Calculated /\ BasicToAdvance /\ CallCurrent.billing = "monthly" /\ DaysMoreThan(5))
        => /\ Accepted
           /\ Decision.amount = CallCurrent.price + CallTarget.price
           /\ \A startDate \in CalcStartDates :
                 now - startDate >= 6 * TicksPerDay
                     => calculateUpgradeAmount(CallUserStartedAt(startDate), CallTarget).amount
                            = Decision.amount
           /\ (Price(199, 499) /\ DaysAre(10)) => Decision.amount = Rupees(698)

C3_Witness ==
    /\ Calculated /\ BasicToAdvance
    /\ CallCurrent.billing = "monthly"
    /\ DaysAre(6) /\ Price(199, 499)
    /\ Accepted /\ Decision.amount = Rupees(698)

\* C4: a basic -> advance upgrade of a yearly plan more than 5 days after the
\* start, with monthsUsed = floor(days / 30), costs
\* max(0, target - (current - monthsUsed * current / 12)); the refundable
\* amount is not clamped, so past 12 months the amount exceeds the target
\* price (1200 -> 2400: 95 days is 1500, 400 days is 2500).
C4_YearlyProration ==
    (Calculated /\ BasicToAdvance /\ CallCurrent.billing = "yearly" /\ DaysMoreThan(5))
        => /\ Accepted
           /\ \A m \in MonthRange :
                 MonthsAre(m) =>
                    LET due12 == 12 * CallTarget.price - (12 * CallCurrent.price - m * CallCurrent.price)
                    IN  /\ 12 * Decision.amount = (IF due12 > 0 THEN due12 ELSE 0)
                        /\ (m > 12 /\ CallCurrent.price > 0) => Decision.amount > CallTarget.price
           /\ (Price(1200, 2400) /\ DaysAre(95)) => Decision.amount = Rupees(1500)
           /\ (Price(1200, 2400) /\ DaysAre(400)) => Decision.amount = Rupees(2500)

C4_Witness ==
    /\ Calculated /\ BasicToAdvance
    /\ CallCurrent.billing = "yearly"
    /\ DaysAre(400) /\ MonthsAre(13) /\ Price(1200, 2400)
    /\ Accepted /\ Decision.amount = Rupees(2500)
    /\ Decision.refundableAmount = Rupees(0 - 100)

\* C5: for a yearly plan more than 5 days after the start and fixed prices, the
\* amount does not decrease as monthsUsed grows, and it is 0 whenever the
\* refundable amount current - monthsUsed * current / 12 is at least the
\* target price.
C5_YearlyMonotone ==
    (Calculated /\ BasicToAdvance /\ CallCurrent.billing = "yearly" /\ DaysMoreThan(5))
        => /\ \A startDate \in CalcStartDates :
                 (/\ now - startDate >= 6 * TicksPerDay
                  /\ \E m1, m2 \in MonthRange :
                        /\ MonthsAre(m1)
                        /\ 30 * m2 * TicksPerDay <= now - startDate
                        /\ now - startDate < 30 * (m2 + 1) * TicksPerDay
                        /\ m1 <= m2)
                     => calculateUpgradeAmount(CallUserStartedAt(startDate), CallTarget).amount
                            >= Decision.amount
           /\ \A m \in MonthRange :
                 (MonthsAre(m) /\ 12 * CallCurrent.price - m * CallCurrent.price >= 12 * CallTarget.price)
                     => Decision.amount = 0

C5_Witness ==
    /\ Calculated /\ BasicToAdvance
    /\ CallCurrent.billing = "yearly"
    /\ MonthsAre(3) /\ Price(2400, 1200)
    /\ Decision.amount = 0
    /\ \E startDate \in CalcStartDates :
          calculateUpgradeAmount(CallUserStartedAt(startDate), CallTarget).amount > 0

\* C6: every accepted decision, in the grace, monthly and yearly branch, has a
\* non-negative amount, for all non-negative prices and all start dates not
\* later than now.
C6_AmountNonNegative ==
    (/\ Calculated /\ Accepted
     /\ CallCurrent.price >= 0 /\ CallTarget.price >= 0
     /\ CallSubscription.startDate <= now)
        => Decision.amount >= 0

C6_Witness ==
    /\ Calculated /\ Accepted
    /\ CallCurrent.billing = "yearly"
    /\ DaysAre(0) /\ Price(1200, 499)
    /\ Decision.amount = 0

\* C7: the decision depends only on what the caller passes to the calculation:
\* two calls with the same user document and the same target plan give the
\* same decision, the current moment being an argument and not a clock read
\* inside the calculation.
C7_DecisionFromArgumentsOnly ==
    [][(/\ resp.route = "calculateUpgradeAmount"
        /\ resp'.route = "calculateUpgradeAmount"
        /\ resp'.req = resp.req
        /\ users' = users /\ plans' = plans)
           => resp'.body = resp.body]_vars

----------------------------------------------------------------------------
(* Properties of the billing workflow *)

\* The step answers a request of the given route
Answers(route) == resp' # resp /\ resp'.route = route

\* C8: computing an upgrade price changes no state: the quote endpoint
\* POST /upgrade leaves every user's subscription and payment history and the
\* plan records unchanged, whether it accepts or rejects.
C8_QuoteChangesNothing ==
    [][Answers("upgrade") => (users' = users /\ plans' = plans)]_vars

C8_Witness ==
    /\ resp.route = "upgrade" /\ resp.code = 200
    /\ resp.body.upgradeAmount = Rupees(698)
    /\ users[resp.req.user].subscription.planId = "basicMonthly"
    /\ users[resp.req.user].subscription.status = "active"
    /\ Len(users[resp.req.user].paymentHistory) = 1

\* C9: a subscription whose start date is later than now is never turned into
\* a price: an upgrade quote or an upgrade order requested for it is answered
\* with an error, not with an amount.
C9_NoPriceForFutureStart ==
    [][\A u \in Users :
         (/\ Answers("upgrade") \/ (Answers("create-order") /\ resp'.req.isUpgrade)
          /\ resp'.req.user = u
          /\ users[u].subscription.status = "active"
          /\ users[u].subscription.startDate > now)
            => resp'.code # 200]_vars

\* C10: in every state reachable through verify-payment, the renewal job, the
\* expiry job, cancel and reactivate, the subscription start date is not
\* later than the current time.
C10_StartDateNotAfterNow ==
    \A u \in Users :
        users[u].subscription.status # "inactive"
            => users[u].subscription.startDate <= now

----------------------------------------------------------------------------
(* Quotes and orders requested against a subscription in any state the        *)
(* billing workflow leaves behind: never subscribed, active, cancelled or     *)
(* expired, young or old, and with its plan document still in the collection  *)
(* or removed from it (plans are maintained outside this code base).          *)

\* Ages of the subscription, in days
OrderDays == {0, 5, 6, 40, 400}

\* A subscription that verify-payment wrote `days` ago, in the status that
\* cancel or the expiry check has given it since
PaidSubscription(planId, status, days) ==
    LET startDate == now - days * TicksPerDay
        len == IF Catalog[planId].billing = "monthly" THEN 30 ELSE 365
    IN  [planId |-> planId, status |-> status, startDate |-> startDate,
         endDate |-> startDate + len * TicksPerDay,
         autoRenew |-> status # "cancelled"]

\* The payments behind a subscription: none before the first purchase, else
\* the purchase (verify-payment) and, if cancelled, the cancellation (cancel)
PaidHistory(subscription) ==
    IF subscription = NewSubscription THEN <<>>
    ELSE <<[amount |-> Catalog[subscription.planId].price, status |-> "success"]>>
            \o (IF subscription.status = "cancelled"
                THEN <<[amount |-> 0, status |-> "cancelled"]>>
                ELSE <<>>)

\* A subscription is marked expired only after its end date
OrderSubscriptions ==
    {NewSubscription} \cup
    {subscription \in
        {PaidSubscription(planId, status, days) :
            planId \in PlanIds, status \in {"active", "cancelled", "expired"},
            days \in OrderDays} :
        subscription.status = "expired" => subscription.endDate < now}

InitOrder ==
    /\ now = 0
    /\ env \in [{"RAZORPAY_KEY_ID", "RAZORPAY_KEY_SECRET"} -> BOOLEAN]
    /\ \E removed \in {{}} \cup {{p} : p \in PlanIds} :
          plans = [p \in PlanIds \ removed |-> Catalog[p]]
    /\ \E subscription \in OrderSubscriptions :
          users = [u \in Users |->
                     [subscription |-> subscription,
                      paymentHistory |-> PaidHistory(subscription)]]
    /\ resp = NoResponse
    /\ Serving

NextOrder ==
    \/ \E u \in Users, planId \in RequestPlanIds, isUpgrade \in BOOLEAN, orderId \in OrderIds :
          CreateOrder(u, planId, isUpgrade, orderId)
    \/ \E u \in Users, newPlanId \in RequestPlanIds : Upgrade(u, newPlanId)
    \/ \E u \in Users, planId \in RequestPlanIds : Calculate(u, planId)

SpecOrder == InitOrder /\ [][NextOrder]_vars

\* The request of the last response, and the documents it was made on (no
\* step of SpecOrder changes a document)
OrderUser == populate(users[resp.req.user])
OrderPlan == findPlan(resp.req.planId)
UpgradeOrder == resp.route = "create-order" /\ resp.req.isUpgrade
OrderCreated == resp.code = 200 /\ "orderId" \in DOMAIN resp.body
CurrentPlanMissing ==
    /\ users[resp.req.user].subscription.status = "active"
    /\ users[resp.req.user].subscription.planId \notin DOMAIN plans

\* C11: when the current plan of the active subscription is missing (the plan
\* reference does not resolve to a plan document), the calculation yields an
\* error and never an amount, and create-order with isUpgrade answers with
\* that error and creates no payment order.
C11_MissingPlanIsAnError ==
    /\ (Calculated /\ CurrentPlanMissing)
          => ("error" \in DOMAIN Decision /\ "amount" \notin DOMAIN Decision)
    /\ (UpgradeOrder /\ CurrentPlanMissing)
          => /\ ~OrderCreated
             /\ (razorpay /\ OrderPlan # NullDoc)
                   => (resp.code = 400 /\ resp.body = [message |-> UnableMessage])

C11_Witness ==
    /\ UpgradeOrder /\ CurrentPlanMissing
    /\ resp.req.planId = "advanceMonthly"
    /\ users[resp.req.user].subscription.planId = "basicMonthly"
    /\ resp.code = 400 /\ resp.body = [message |-> UnableMessage]

\* The messages with which the calculation refuses
EngineMessages == {InvalidPathMessage, UnableMessage}

\* C12: the calculation is invoked only for a subscription whose status is
\* 'active', in both callers: for any other status /upgrade answers 400 'No
\* active subscription to upgrade' and create-order prices the order at the
\* plan's full price, and neither response carries an outcome of the
\* calculation.
C12_EngineOnlyForActive ==
    (/\ resp.route \in {"upgrade", "create-order"}
     /\ users[resp.req.user].subscription.status # "active")
        => /\ "message" \in DOMAIN resp.body => resp.body.message \notin EngineMessages
           /\ resp.route = "upgrade"
                 => /\ resp.code = 400
                    /\ resp.body = [message |-> "No active subscription to upgrade"]
           /\ (resp.route = "create-order" /\ razorpay /\ OrderPlan # NullDoc)
                 => /\ OrderCreated
                    /\ resp.body.amount = OrderPlan.price * 100

C12_Witness ==
    /\ UpgradeOrder /\ OrderCreated
    /\ users[resp.req.user].subscription.status = "cancelled"
    /\ users[resp.req.user].subscription.planId = "basicMonthly"
    /\ resp.req.planId = "advanceMonthly"
    /\ resp.body.amount = Rupees(499) * 100

\* C13: create-order with isUpgrade on an active subscription: when the
\* calculation accepts, the payment order is created for exactly 100 times
\* the amount due (the amount in paise); when it rejects, the request is
\* answered with the calculation's reason and no order is created.
C13_OrderForQuotedAmount ==
    (/\ UpgradeOrder /\ razorpay /\ OrderPlan # NullDoc
     /\ users[resp.req.user].subscription.status = "active")
        => LET quote == calculateUpgradeAmount(OrderUser, OrderPlan)
           IN  IF "error" \in DOMAIN quote
               THEN /\ ~OrderCreated
                    /\ resp.code = 400
                    /\ resp.body = [message |-> quote.error]
               ELSE /\ OrderCreated
                    /\ resp.body.amount = 100 * quote.amount

C13_Witness ==
    /\ UpgradeOrder /\ OrderCreated
    /\ users[resp.req.user].subscription.status = "active"
    /\ users[resp.req.user].subscription.planId = "basicMonthly"
    /\ users[resp.req.user].subscription.startDate = now - 6 * TicksPerDay
    /\ resp.req.planId = "advanceMonthly"
    /\ resp.body.amount = Rupees(199 + 499) * 100

----------------------------------------------------------------------------
(* Totality of the calculation *)

\* The kind of the last decision, read off the shape of the returned object
Outcome ==
    IF "error" \in DOMAIN Decision
    THEN IF Decision.error = "Invalid upgrade path. Can only upgrade from Basic to Advance."
         THEN "Rejected" ELSE "Fault"
    ELSE IF "amount" \notin DOMAIN Decision THEN "Fault"
    ELSE IF "refundableAmount" \in DOMAIN Decision THEN "AcceptedYearly"
    ELSE IF Decision.reason = "Free upgrade within 5 days" THEN "AcceptedGrace"
    ELSE IF Decision.reason = "Upgrade after 5 days: current month charge + new plan"
    THEN "AcceptedMonthly"
    ELSE "Fault"

\* C15: on the stated domain (both plans present, start date not later than
\* now) the calculation always ends with exactly one of four outcomes:
\* Rejected (invalid path), Accepted by the grace rule, Accepted by the monthly
\* rule, Accepted by the yearly rule; which one is fixed by the plan types, the
\* elapsed days and the billing cycle, and it is never the fault 'Unable to
\* calculate upgrade amount'.
C15_OneOfFourOutcomes ==
    (Calculated /\ CallSubscription.startDate <= now)
        => /\ Decision # [error |-> "Unable to calculate upgrade amount"]
           /\ Outcome = (IF ~BasicToAdvance THEN "Rejected"
                         ELSE IF DaysAtMost(5) THEN "AcceptedGrace"
                         ELSE IF CallCurrent.billing = "monthly" THEN "AcceptedMonthly"
                         ELSE "AcceptedYearly")

C15_Witness ==
    /\ Calculated /\ BasicToAdvance
    /\ CallCurrent.billing = "yearly" /\ CallTarget.billing = "monthly"
    /\ DaysAre(95) /\ Price(1200, 499)
    /\ Outcome = "AcceptedYearly"

----------------------------------------------------------------------------
(* Concurrent upgrade requests.  A handler runs until its next await; between *)
(* two awaits the handlers of other requests run.  An upgrade is the client's *)
(* sequence create-order (isUpgrade: true), payment at the gateway,           *)
(* verify-payment.  flights[r] is the progress of request r:                  *)
(*   start -> loaded -> ordered -> verifying -> applied, or -> refused.       *)

Requests == {"r1", "r2"}

NewFlight == [pc |-> "start", planId |-> NULL, user |-> NULL, amount |-> 0]

\* create-order up to its awaits on User.findById and SubscriptionPlan.findById
CreateOrderLoad(r, u, planId) ==
    /\ flights[r].pc = "start"
    /\ razorpay
    /\ flights' = [flights EXCEPT ![r] =
                      [pc |-> "loaded", planId |-> planId,
                       user |-> populate(users[u]), amount |-> 0]]
    /\ UNCHANGED <<now, env, plans, users, resp, server, crons>>

\* create-order from the loaded documents to its response: the price of the
\* upgrade, and the order at the gateway
CreateOrderAnswer(r, u, orderId) ==
    LET planId == flights[r].planId
        req == [user |-> u, planId |-> planId, isUpgrade |-> TRUE]
        user == flights[r].user
        plan == findPlan(planId)
        upgradeCalculation == calculateUpgradeAmount(user, plan)
        upgrading == pricedAsUpgrade(user, TRUE)
        finalAmount == orderAmount(plan, upgrading, upgradeCalculation)
    IN  /\ flights[r].pc = "loaded"
        /\ IF plan = NullDoc
           THEN /\ resp' = Response("create-order", req, 404, [message |-> "Plan not found"])
                /\ flights' = [flights EXCEPT ![r].pc = "refused"]
           ELSE IF upgrading /\ "error" \in DOMAIN upgradeCalculation
           THEN /\ resp' = Response("create-order", req, 400, [message |-> upgradeCalculation.error])
                /\ flights' = [flights EXCEPT ![r].pc = "refused"]
           ELSE /\ resp' = Response("create-order", req, 200,
                                    [success |-> TRUE, orderId |-> orderId,
                                     amount |-> finalAmount, isUpgrade |-> TRUE])
                /\ flights' = [flights EXCEPT ![r].pc = "ordered", ![r].amount = finalAmount]
        /\ UNCHANGED <<now, env, plans, users, server, crons>>

\* verify-payment of the paid order, up to its awaits on User.findById and
\* SubscriptionPlan.findById: the gateway's signature is accepted
VerifyPaymentLoad(r, u) ==
    /\ flights[r].pc = "ordered"
    /\ env.RAZORPAY_KEY_SECRET
    /\ flights' = [flights EXCEPT ![r].pc = "verifying", ![r].user = users[u]]
    /\ UNCHANGED <<now, env, plans, users, resp, server, crons>>

\* verify-payment from the loaded documents to its response.  user.save()
\* writes the paths the handler modified: it sets the subscription and
\* pushes the payment onto the stored paymentHistory.
VerifyPaymentSave(r, u, orderId, paymentId) ==
    LET planId == flights[r].planId
        req == [user |-> u, razorpay_order_id |-> orderId, razorpay_payment_id |-> paymentId,
                razorpay_signature |-> hmac(<<orderId, "|", paymentId>>), planId |-> planId]
        plan == findPlan(planId)
    IN  /\ flights[r].pc = "verifying"
        /\ \E len \in PeriodLengths(plan) :
              LET startDate == now
                  endDate == startDate + len * TicksPerDay
                  subscription == [planId |-> planId, status |-> "active",
                                   startDate |-> startDate, endDate |-> endDate,
                                   autoRenew |-> TRUE]
              IN  /\ users' = [users EXCEPT
                        ![u].subscription = subscription,
                        ![u].paymentHistory =
                            Append(@, [amount |-> plan.price, status |-> "success"])]
                  /\ resp' = Response("verify-payment", req, 200,
                                      [success |-> TRUE, subscription |-> subscription])
        /\ flights' = [flights EXCEPT ![r].pc = "applied"]
        /\ UNCHANGED <<now, env, plans, server, crons>>

\* The user holds an active basic subscription, a few days old
RaceDays == {0, 5, 6}

InitRace ==
    /\ now = 0
    /\ env = [v \in {"RAZORPAY_KEY_ID", "RAZORPAY_KEY_SECRET"} |-> TRUE]
    /\ plans = Catalog
    /\ \E planId \in {"basicMonthly", "basicYearly"}, days \in RaceDays :
          users = [u \in Users |->
                     [subscription |-> PaidSubscription(planId, "active", days),
                      paymentHistory |-> <<[amount |-> Catalog[planId].price, status |-> "success"]>>]]
    /\ resp = NoResponse
    /\ server = Connected
    /\ crons = CronsStopped
    /\ flights = [r \in Requests |-> NewFlight]

NextRace ==
    \/ \E r \in Requests, u \in Users, planId \in RequestPlanIds : CreateOrderLoad(r, u, planId)
    \/ \E r \in Requests, u \in Users, orderId \in OrderIds : CreateOrderAnswer(r, u, orderId)
    \/ \E r \in Requests, u \in Users : VerifyPaymentLoad(r, u)
    \/ \E r \in Requests, u \in Users, orderId \in OrderIds, paymentId \in PaymentIds :
          VerifyPaymentSave(r, u, orderId, paymentId)

SpecRace == InitRace /\ [][NextRace]_vars

\* The upgrade requests that ended with the upgrade applied
Applied == {r \in DOMAIN flights : flights[r].pc = "applied"}

\* C14: two concurrent upgrade requests by the same user against the same
\* active subscription cannot both succeed: whatever the interleaving of
\* their steps (load the subscription, price, create the order, verify the
\* payment, save), at most one of them ends with an upgrade applied.
C14_AtMostOneUpgradeApplied ==
    Cardinality(Applied) <= 1

----------------------------------------------------------------------------
(* Access to videos over the life of a subscription *)

\* The ids a client asks for: a stored video, and one that is not stored.  (The
\* Video collection and its view counters are outside this model.)
VideoIds == {"video_1", "noVideo"}

SubscriptionRequiredMessage == "Active subscription required to watch videos"

\* GET /api/videos/:id
GetVideo(u, id, playback) ==
    LET req == [user |-> u, id |-> id, playback |-> playback]
        user == users[u]
    IN  /\ IF id = "noVideo"
           THEN resp' = Response("videos/:id", req, 404, [message |-> "Video not found"])
           ELSE IF playback /\ user.subscription.status # "active"
           THEN resp' = Response("videos/:id", req, 403,
                                 [message |-> SubscriptionRequiredMessage,
                                  requiresSubscription |-> TRUE])
           ELSE resp' = Response("videos/:id", req, 200, [video |-> id])
        /\ UNCHANGED <<now, env, plans, users, server, crons, flights>>

InitAccess ==
    /\ now = 0
    /\ env = [v \in {"RAZORPAY_KEY_ID", "RAZORPAY_KEY_SECRET"} |-> TRUE]
    /\ plans = Catalog
    /\ users = [u \in Users |-> NewUser]
    /\ resp = NoResponse
    /\ Serving

NextAccess ==
    \/ \E u \in Users, orderId \in OrderIds, paymentId \in PaymentIds, planId \in PlanIds :
          VerifyPayment(u, orderId, paymentId, hmac(<<orderId, "|", paymentId>>), planId)
    \/ \E u \in Users : Cancel(u)
    \/ \E u \in Users : Reactivate(u)
    \/ \E u \in Users, id \in VideoIds, playback \in BOOLEAN : GetVideo(u, id, playback)
    \/ expiredSubscriptionsCron
    \/ \E d \in TickSteps : Tick(d)

SpecAccess == InitAccess /\ [][NextAccess]_vars

\* C16: after a cancellation the user keeps access until the end date: a
\* playback request made after cancel and before endDate is not refused with
\* 'Active subscription required to watch videos'.
C16_AccessUntilEndDate ==
    [][\A u \in Users :
         (/\ Answers("videos/:id")
          /\ resp'.req.user = u /\ resp'.req.playback
          /\ users[u].subscription.status = "cancelled"
          /\ now <= users[u].subscription.endDate)
            => ("message" \in DOMAIN resp'.body
                   => resp'.body.message # "Active subscription required to watch videos")]_vars

----------------------------------------------------------------------------
(* Start-up of the server.  Two entry points are in the repository:           *)
(* src/server.js, and the server of src/unnamed/part_003.  Both connect to    *)
(* the database, with retries, and then decide on the jobs.                   *)

Entries == {"server.js", "part_003"}
NodeEnvs == {"production", "development", NULL}

\* startSubscriptionCrons()
startSubscriptionCrons ==
    IF env.VERCEL \/ env.NODE_ENV = "production"
    THEN crons
    ELSE [subscriptionRenewalCron |-> TRUE, expiredSubscriptionsCron |-> TRUE]

\* The decision each entry point takes once mongoose.connect has succeeded
startsCrons ==
    IF server.entry = "server.js"
    THEN env.NODE_ENV = "production" /\ ~env.VERCEL
    ELSE env.NODE_ENV = "production"

\* connectDB(retries): one attempt.  `ok` is whether mongoose.connect succeeds.
connectDB(ok) ==
    /\ server.pc = "connecting"
    /\ IF ok
       THEN /\ server' = [server EXCEPT !.cachedDb = (server.entry = "server.js"),
                                         !.pc = "connected"]
            /\ crons' = IF startsCrons THEN startSubscriptionCrons ELSE crons
       ELSE /\ crons' = crons
            /\ IF server.retries > 0
               THEN server' = [server EXCEPT !.retries = @ - 1]
               ELSE IF env.NODE_ENV = "production"
               THEN server' = [server EXCEPT !.pc = "exited"]
               ELSE server' = [server EXCEPT !.pc = "failed"]
    /\ UNCHANGED <<now, env, plans, users, resp, flights>>

InitServer ==
    /\ now = 0
    /\ env \in [RAZORPAY_KEY_ID : BOOLEAN, RAZORPAY_KEY_SECRET : BOOLEAN,
                 NODE_ENV : NodeEnvs, VERCEL : BOOLEAN]
    /\ plans = Catalog
    /\ users = [u \in Users |-> NewUser]
    /\ resp = NoResponse
    /\ \E entry \in Entries :
          server = [entry |-> entry, cachedDb |-> FALSE, pc |-> "connecting",
                    retries |-> IF entry = "server.js" THEN 3 ELSE 5]
    /\ crons = CronsStopped
    /\ flights = NoFlights

NextServer == \E ok \in BOOLEAN : connectDB(ok)

SpecServer == InitServer /\ [][NextServer]_vars

\* C17: in a production non-serverless deployment (NODE_ENV = 'production',
\* VERCEL unset), once the database connection has succeeded the renewal job
\* and the expiry job are started.
C17_JobsStartedInProduction ==
    (/\ env.NODE_ENV = "production" /\ ~env.VERCEL
     /\ server.pc = "connected")
        => (crons.subscriptionRenewalCron /\ crons.expiredSubscriptionsCron)

----------------------------------------------------------------------------
(* The subscription jobs run over a collection of two users whose             *)
(* subscriptions end around the moment of the run.                            *)

JobUsers == {"u1", "u2"}
JobPlanIds == {"basicMonthly", "advanceYearly"}

\* End dates: before now, now, within the next 24 hours, 24 hours from now, later
JobEndDates == {now - 1, now, now + TicksPerDay - 1, now + TicksPerDay, now + TicksPerDay + 1}

\* A subscription that verify-payment wrote one period before endDate and that
\* was cancelled, or not, since
EndingSubscription(planId, status, endDate) ==
    LET len == IF Catalog[planId].billing = "monthly" THEN 30 ELSE 365
    IN  [planId |-> planId, status |-> status,
         startDate |-> endDate - len * TicksPerDay, endDate |-> endDate,
         autoRenew |-> status # "cancelled"]

JobSubscriptions ==
    {NewSubscription} \cup
    {EndingSubscription(planId, status, endDate) :
        planId \in JobPlanIds, status \in {"active", "cancelled"}, endDate \in JobEndDates}

InitJobs ==
    /\ now = 0
    /\ env = [v \in {"RAZORPAY_KEY_ID", "RAZORPAY_KEY_SECRET"} |-> TRUE]
    /\ \E removed \in {{}, {"basicMonthly"}} :
          plans = [p \in PlanIds \ removed |-> Catalog[p]]
    /\ \E subscription \in [JobUsers -> JobSubscriptions] :
          users = [u \in JobUsers |->
                     [subscription |-> subscription[u],
                      paymentHistory |-> PaidHistory(subscription[u])]]
    /\ resp = NoResponse
    /\ Serving

NextJobs ==
    \/ subscriptionRenewalCron
    \/ expiredSubscriptionsCron

SpecJobs == InitJobs /\ [][NextJobs]_vars

\* The subscription of user u before and after the step
Before(u) == users[u].subscription
After(u) == users'[u].subscription

\* C18: a run of the expiry job at time t marks 'expired' every user whose
\* subscription is active with endDate < t, so that afterwards no subscription
\* is active with endDate < t; it changes only the status of those users and
\* leaves every other user (a cancelled subscription past its end date
\* included) unchanged.
C18_ExpiryJob ==
    [][expiredSubscriptionsCron =>
         /\ DOMAIN users' = DOMAIN users
         /\ \A u \in DOMAIN users :
               IF Before(u).status = "active" /\ Before(u).endDate < now
               THEN users'[u] = [users[u] EXCEPT !.subscription.status = "expired"]
               ELSE users'[u] = users[u]
         /\ \A u \in DOMAIN users :
               ~(After(u).status = "active" /\ After(u).endDate < now')]_vars

C18_Witness ==
    /\ DOMAIN users = JobUsers
    /\ users["u1"].subscription.status = "expired"
    /\ users["u1"].subscription.endDate < now
    /\ users["u2"].subscription.status = "cancelled"
    /\ users["u2"].subscription.endDate < now

\* The calendar lengths, in days, of the period a plan is billed for
BillingPeriod(planId) ==
    IF plans[planId].billing = "monthly" THEN 28 .. 31 ELSE {365, 366}

\* The subscription is active, auto-renewing, and ends in [t, t + 1 day)
DueAt(subscription, t) ==
    /\ subscription.status = "active"
    /\ subscription.autoRenew
    /\ t <= subscription.endDate
    /\ subscription.endDate < t + TicksPerDay

----------------------------------------------------------------------------
(* Reactivation of subscriptions that end around the moment of the request *)

NextReactivate ==
    \/ \E u \in DOMAIN users : Reactivate(u)
    \/ \E u \in DOMAIN users : Cancel(u)
    \/ expiredSubscriptionsCron

SpecReactivate == InitJobs /\ [][NextReactivate]_vars

\* C20: reactivate succeeds only when the status is 'cancelled' and now is
\* not later than endDate; it then sets the status to 'active' and autoRenew
\* to true and leaves planId, startDate and endDate unchanged; in every other
\* case it answers 400 and changes nothing.
C20_Reactivate ==
    [][Answers("reactivate") =>
         \A u \in DOMAIN users :
            IF resp'.req.user # u
            THEN users'[u] = users[u]
            ELSE IF Before(u).status = "cancelled" /\ now <= Before(u).endDate
            THEN /\ resp'.code = 200
                 /\ After(u).status = "active" /\ After(u).autoRenew = TRUE
                 /\ After(u).planId = Before(u).planId
                 /\ After(u).startDate = Before(u).startDate
                 /\ After(u).endDate = Before(u).endDate
                 /\ users'[u].paymentHistory = users[u].paymentHistory
            ELSE /\ resp'.code = 400
                 /\ users' = users]_vars

\* A reactivation at the last moment of the period, after a cancellation
C20_Witness ==
    /\ resp.route = "reactivate" /\ resp.code = 200
    /\ users[resp.req.user].subscription.status = "active"
    /\ users[resp.req.user].subscription.autoRenew = TRUE
    /\ users[resp.req.user].subscription.planId = "advanceYearly"
    /\ users[resp.req.user].subscription.endDate = now
    /\ Len(users[resp.req.user].paymentHistory) = 2
    /\ users[resp.req.user].paymentHistory[2].status = "cancelled"

----------------------------------------------------------------------------
(* Payment verification *)

\* C21: verify-payment with a signature different from the HMAC-SHA256 of
\* order_id | payment_id under the gateway secret answers 400 and changes
\* nothing: the user's subscription and payment history are the same as
\* before the request.
C21_BadSignatureChangesNothing ==
    [][(/\ Answers("verify-payment")
        /\ env.RAZORPAY_KEY_SECRET
        /\ resp'.req.razorpay_signature
              # <<"hmac-sha256", <<resp'.req.razorpay_order_id, "|", resp'.req.razorpay_payment_id>>>>)
           => /\ resp'.code = 400
              /\ users' = users]_vars

C21_Witness ==
    /\ resp.route = "verify-payment" /\ resp.code = 400
    /\ resp.body = [message |-> "Invalid payment signature"]
    /\ resp.req.planId = "advanceYearly"
    /\ users[resp.req.user].subscription.status = "active"
    /\ users[resp.req.user].subscription.planId = "basicMonthly"
    /\ Len(users[resp.req.user].paymentHistory) = 1

\* Payments by a user whose subscription is in any state the workflow leaves
\* behind: the requests of SpecRace, made against the subscriptions of SpecOrder
InitPayment ==
    /\ now = 0
    /\ env = [v \in {"RAZORPAY_KEY_ID", "RAZORPAY_KEY_SECRET"} |-> TRUE]
    /\ plans = Catalog
    /\ \E subscription \in OrderSubscriptions :
          users = [u \in Users |->
                     [subscription |-> subscription,
                      paymentHistory |-> PaidHistory(subscription)]]
    /\ resp = NoResponse
    /\ server = Connected
    /\ crons = CronsStopped
    /\ flights = [r \in Requests |-> NewFlight]

SpecPayment == InitPayment /\ [][NextRace]_vars

\* C22: a successful verify-payment (valid signature, existing plan) sets the
\* subscription to status 'active', planId = the requested plan, startDate =
\* now, endDate = now + 1 month for a monthly plan and now + 1 year otherwise,
\* autoRenew = true, and appends exactly one payment-history entry with status
\* 'success'; this holds from every prior status (inactive, active, cancelled,
\* expired).
C22_SuccessfulPayment ==
    [][(Answers("verify-payment") /\ resp'.code = 200)
          => LET u == resp'.req.user
                 planId == resp'.req.planId
             IN  /\ planId \in DOMAIN plans
                 /\ \E len \in BillingPeriod(planId) :
                       After(u) = [planId |-> planId, status |-> "active",
                                   startDate |-> now,
                                   endDate |-> now + len * TicksPerDay,
                                   autoRenew |-> TRUE]
                 /\ Len(users'[u].paymentHistory) = Len(users[u].paymentHistory) + 1
                 /\ SubSeq(users'[u].paymentHistory, 1, Len(users[u].paymentHistory))
                       = users[u].paymentHistory
                 /\ users'[u].paymentHistory[Len(users'[u].paymentHistory)].status = "success"]_vars

\* A payment for a yearly plan by a user whose subscription was cancelled
C22_Witness ==
    /\ resp.route = "verify-payment" /\ resp.code = 200
    /\ users[resp.req.user].subscription.status = "active"
    /\ users[resp.req.user].subscription.planId = "advanceYearly"
    /\ users[resp.req.user].subscription.startDate = now
    /\ users[resp.req.user].subscription.endDate = now + 366 * TicksPerDay
    /\ Len(users[resp.req.user].paymentHistory) = 3
    /\ users[resp.req.user].paymentHistory[1].amount = Rupees(199)
    /\ users[resp.req.user].paymentHistory[2].status = "cancelled"
    /\ users[resp.req.user].paymentHistory[3].status = "success"

----------------------------------------------------------------------------
(* Upgrade requests outside the upgrade path *)

\* C23: a create-order request flagged as an upgrade (isUpgrade = true) for a
\* user whose subscription status is not 'active' does not lead to a payment
\* order: the request is rejected.
C23_NoUpgradeOrderWithoutActive ==
    (UpgradeOrder /\ users[resp.req.user].subscription.status # "active")
        => (~OrderCreated /\ resp.code >= 400)

AdvancePlanIds == {p \in DOMAIN plans : plans[p].type = "advance"}

\* The target plan of an upgrade quote or of an order
TargetOf(req) == IF "newPlanId" \in DOMAIN req THEN req.newPlanId ELSE req.planId

\* C24: after a successful verify-payment for an advance plan (the user's
\* planId is an advance plan until the next successful verify-payment), every
\* upgrade quote and every upgrade order for that user is rejected with
\* 'Invalid upgrade path. Can only upgrade from Basic to Advance.', whatever
\* plan of the catalogue is the target.
C24_AdvanceIsFinal ==
    [][\A u \in Users :
         (/\ Answers("upgrade") \/ (Answers("create-order") /\ resp'.req.isUpgrade)
          /\ resp'.req.user = u
          /\ razorpay
          /\ TargetOf(resp'.req) \in DOMAIN plans
          /\ users[u].subscription.planId \in AdvancePlanIds)
            => /\ resp'.code = 400
               /\ resp'.body = [message |-> "Invalid upgrade path. Can only upgrade from Basic to Advance."]]_vars

----------------------------------------------------------------------------
(* The amount due over the age of the subscription *)

C26_AmountNonDecreasing ==
    (/\ Calculated /\ BasicToAdvance
     /\ CallCurrent.price >= 0 /\ CallTarget.price >= 0
     /\ CallSubscription.startDate <= now)
        => /\ Accepted
           /\ \A startDate \in CalcStartDates :
                 startDate <= CallSubscription.startDate
                    => calculateUpgradeAmount(CallUserStartedAt(startDate), CallTarget).amount
                          >= Decision.amount

C26_Witness ==
    /\ Calculated /\ BasicToAdvance
    /\ CallCurrent.billing = "monthly"
    /\ DaysAre(5) /\ Price(199, 499)
    /\ Decision.amount = Rupees(300)
    /\ calculateUpgradeAmount(CallUserStartedAt(now - 6 * TicksPerDay), CallTarget).amount
          = Rupees(698)


====
